---------------------------- MODULE Spec2Model ----------------------------
(***************************************************************************)
(* A model of brd2svg.py: the conversion of an Eagle board file to one     *)
(* composite SVG.                                                          *)
(*                                                                         *)
(* Two state machines share the module.                                    *)
(*   SpecPath  applies add_offset_to_path_d to bounded path-data strings.  *)
(*   Spec      runs main(): extract_components, extract_board_outline, the *)
(*             grid placement, combine_svgs (one step per component) and   *)
(*             the write of the output file.                               *)
(*                                                                         *)
(* Numbers.  Text is a sequence of one-character strings.  A float is an   *)
(* integer count of 1/10000 units (FIX of them make 1.0), which holds      *)
(* every literal of at most four fractional digits exactly; the strings    *)
(* the model reaches have no more.  No reachable value lies on a rounding  *)
(* tie of the 3-decimal format (the alphabet has no digit 5), so the       *)
(* binary representation of a float never decides a result here.           *)
(***************************************************************************)
EXTENDS Integers, Sequences, FiniteSets, TLC

(***************************************************************************)
(* Bounds of the model.                                                    *)
(***************************************************************************)
MaxPathLen == 5
MaxRewrites == 2
MaxWires == 2
MaxElements == 3

\* One unit (1.0) in the fixed-point representation of a float.
FIX == 10 * 10 * 10 * 10

Fixed(n) == n * FIX

Abs(v) == IF v < 0 THEN -v ELSE v

RECURSIVE Pow10(_)
Pow10(k) == IF k <= 0 THEN 1 ELSE 10 * Pow10(k - 1)

(***************************************************************************)
(* Characters.                                                             *)
(***************************************************************************)
DigitChars == <<"0", "1", "2", "3", "4", "5", "6", "7", "8", "9">>

Digits == {DigitChars[k] : k \in 1..10}

DigitVal(c) == (CHOOSE k \in 1..10 : DigitChars[k] = c) - 1

Signs == {"-", "+"}

IsDigit(s, p) == p >= 1 /\ p <= Len(s) /\ s[p] \in Digits

\* The length of the longest run of digits of s that starts at position p.
RECURSIVE DigitRun(_, _)
DigitRun(s, p) == IF IsDigit(s, p) THEN 1 + DigitRun(s, p + 1) ELSE 0

\* The number written by the k digits of s that start at position p.
RECURSIVE DigitsValue(_, _, _)
DigitsValue(s, p, k) ==
    IF k = 0 THEN 0
    ELSE 10 * DigitsValue(s, p, k - 1) + DigitVal(s[p + k - 1])

(***************************************************************************)
(* FLOAT_RE = [-+]?\d*\.?\d+(?:[eE][-+]?\d+)?  matched as Python's         *)
(* backtracking matcher does.  An end position is the index after the      *)
(* last matched character; 0 means no match.                               *)
(***************************************************************************)

\* \d*\.?\d+ at p: all the digits, then a point only if a digit follows it;
\* otherwise the digits alone (the last one is given back to \d+).
MantissaEnd(s, p) ==
    LET k == DigitRun(s, p)
        dot == p + k <= Len(s) /\ s[p + k] = "."
        m == IF dot THEN DigitRun(s, p + k + 1) ELSE 0
    IN  IF dot /\ m >= 1 THEN p + k + 1 + m
        ELSE IF k >= 1 THEN p + k
        ELSE 0

\* (?:[eE][-+]?\d+)? at q: taken when complete, skipped otherwise.
ExponentEnd(s, q) ==
    IF q <= Len(s) /\ s[q] \in {"e", "E"}
    THEN LET sp == IF q + 1 <= Len(s) /\ s[q + 1] \in Signs THEN q + 2 ELSE q + 1
             m == DigitRun(s, sp)
         IN  IF m >= 1 THEN sp + m ELSE q
    ELSE q

MatchEnd(s, at) ==
    LET p == IF s[at] \in Signs THEN at + 1 ELSE at
        me == MantissaEnd(s, p)
    IN  IF me = 0 THEN 0 ELSE ExponentEnd(s, me)

\* FLOAT_RE.findall / the matches FLOAT_RE.sub visits: the spans <<start, end>>
\* of the leftmost non-overlapping matches from position at on.
RECURSIVE Matches(_, _)
Matches(s, at) ==
    IF at > Len(s) THEN << >>
    ELSE LET e == MatchEnd(s, at)
         IN  IF e = 0 THEN Matches(s, at + 1)
             ELSE << <<at, e>> >> \o Matches(s, e)

Token(s, span) == SubSeq(s, span[1], span[2] - 1)

findall(s) == LET ms == Matches(s, 1) IN [j \in 1..Len(ms) |-> Token(s, ms[j])]

(***************************************************************************)
(* float(token), for a token FLOAT_RE matched, in fixed point.             *)
(***************************************************************************)
float(tok) ==
    LET neg == tok[1] = "-"
        p == IF tok[1] \in Signs THEN 2 ELSE 1
        k == DigitRun(tok, p)
        dot == p + k <= Len(tok) /\ tok[p + k] = "."
        fp == IF dot THEN p + k + 1 ELSE p + k
        m == IF dot THEN DigitRun(tok, fp) ELSE 0
        q == fp + m
        hasExp == q <= Len(tok)
        eneg == hasExp /\ tok[q + 1] = "-"
        ep == IF hasExp /\ tok[q + 1] \in Signs THEN q + 2 ELSE q + 1
        ex == IF hasExp THEN DigitsValue(tok, ep, Len(tok) - ep + 1) ELSE 0
        e == IF eneg THEN -ex ELSE ex
        n == DigitsValue(tok, p, k) * Pow10(m) + DigitsValue(tok, fp, m)
        sh == 4 - m + e
        mag == IF sh >= 0 THEN n * Pow10(sh) ELSE n \div Pow10(-sh)
    IN  IF neg THEN -mag ELSE mag

(***************************************************************************)
(* f"{v:.3f}": sign, integer part, point, three fractional digits.  A      *)
(* negative value keeps its sign when it rounds to zero ("-0.000").        *)
(***************************************************************************)
RECURSIVE IntStr(_)
IntStr(n) ==
    IF n < 10 THEN <<DigitChars[n + 1]>>
    ELSE IntStr(n \div 10) \o <<DigitChars[(n % 10) + 1]>>

Format3(v) ==
    LET milli == (Abs(v) + 5) \div 10
        ip == milli \div 1000
        fr == milli % 1000
    IN  (IF v < 0 THEN <<"-">> ELSE << >>)
        \o IntStr(ip) \o <<".">>
        \o <<DigitChars[(fr \div 100) + 1],
             DigitChars[((fr \div 10) % 10) + 1],
             DigitChars[(fr % 10) + 1]>>

(***************************************************************************)
(* add_offset_to_path_d.  x_off and y_off are whole numbers.               *)
(***************************************************************************)

\* The while loop: one "x" and one "y" text per pair of literals; an unpaired
\* last literal gets the y text of the integer 0.
NewCoords(nums, x_off, y_off) ==
    LET n == Len(nums)
        cnt == 2 * ((n + 1) \div 2)
    IN  [j \in 1..cnt |->
            IF j % 2 = 1 THEN Format3(nums[j] + Fixed(x_off))
            ELSE IF j <= n THEN Format3(nums[j] + Fixed(y_off))
            ELSE Format3(0)]

\* FLOAT_RE.sub(replacer, d_attr): the text between the matches is kept, the
\* j-th match is replaced by the j-th new coordinate.
RECURSIVE SubFrom(_, _, _, _, _)
SubFrom(s, at, ms, j, coords) ==
    IF j > Len(ms) THEN SubSeq(s, at, Len(s))
    ELSE SubSeq(s, at, ms[j][1] - 1) \o coords[j]
         \o SubFrom(s, ms[j][2], ms, j + 1, coords)

add_offset_to_path_d(d, x_off, y_off) ==
    LET ms == Matches(d, 1)
        tokens == [j \in 1..Len(ms) |-> Token(d, ms[j])]
        nums == [j \in 1..Len(tokens) |-> float(tokens[j])]
    IN  IF tokens = << >> THEN d
        ELSE SubFrom(d, 1, ms, 1, NewCoords(nums, x_off, y_off))


(***************************************************************************)
(* XML attribute values.  An attribute whose text float() accepts is the   *)
(* whole number it denotes; any other text is kept as text; an absent      *)
(* attribute (get() returns None) is None.                                 *)
(***************************************************************************)
Num(n) == <<"num", n>>

Text == <<"text", 0>>

None == <<"none", 0>>

IsNum(a) == a[1] = "num"

(***************************************************************************)
(* extract_components: the (name, package) of every element that has both. *)
(* A missing or empty name or package is "".                               *)
(***************************************************************************)
RECURSIVE extract_components(_)
extract_components(els) ==
    IF els = << >> THEN << >>
    ELSE LET element == Head(els)
             rest == extract_components(Tail(els))
         IN  IF element.name # "" /\ element.package # ""
             THEN <<[name |-> element.name, package |-> element.package]>> \o rest
             ELSE rest

(***************************************************************************)
(* extract_board_outline.                                                  *)
(***************************************************************************)

\* 39.3701 mils per millimetre, in fixed point.
MM_TO_MILS == 393701

\* float(wire.get(...)) raises TypeError on a missing attribute and
\* ValueError on text that is no number; nothing catches either.
WireRaises(wire) ==
    ~ (IsNum(wire.x1) /\ IsNum(wire.y1) /\ IsNum(wire.x2) /\ IsNum(wire.y2))

OutlineRaises(pl) ==
    pl.present /\ \E k \in 1..Len(pl.wires) : WireRaises(pl.wires[k])

\* points: both end points of every wire, in document order.
RECURSIVE WirePoints(_)
WirePoints(wires) ==
    IF wires = << >> THEN << >>
    ELSE LET wire == Head(wires)
         IN  << <<wire.x1[2], wire.y1[2]>>, <<wire.x2[2], wire.y2[2]>> >>
             \o WirePoints(Tail(wires))

\* The variant of UniquePoints that remembers only the last point it kept.
RECURSIVE UniqueSinceLast(_, _)
UniqueSinceLast(points, seen) ==
    IF points = << >> THEN << >>
    ELSE IF Head(points) \in seen
         THEN UniqueSinceLast(Tail(points), seen)
         ELSE <<Head(points)>> \o UniqueSinceLast(Tail(points), {Head(points)})

\* unique_points: a point is kept unless it is in seen; first-seen order.
RECURSIVE UniquePoints(_, _)
UniquePoints(points, seen) ==
    IF points = << >> THEN << >>
    ELSE IF Head(points) \in seen
         THEN UniquePoints(Tail(points), seen)
         ELSE <<Head(points)>> \o UniquePoints(Tail(points), seen \cup {Head(points)})

\* polygon_points: millimetres to mils.
PolygonPoints(unique_points) ==
    [k \in 1..Len(unique_points) |->
        <<unique_points[k][1] * MM_TO_MILS, unique_points[k][2] * MM_TO_MILS>>]

\* The value returned when nothing raises; << >> stands for None (the function
\* never returns an empty list).
extract_board_outline(pl) ==
    IF ~ pl.present THEN << >>
    ELSE LET points == WirePoints(pl.wires)
         IN  IF points = << >> THEN << >>
             ELSE PolygonPoints(UniquePoints(points, {}))

(***************************************************************************)
(* main: the demo grid.                                                    *)
(***************************************************************************)
grid_spacing == 500

cols == 10

\* positions[k] for the component with Python index k - 1, in mils.
GridPositions(n) ==
    [k \in 1..n |-> <<((k - 1) % cols) * grid_spacing,
                      ((k - 1) \div cols) * grid_spacing>>]

(***************************************************************************)
(* Artwork.  An SVG element carries the attributes offset_svg_coords reads:*)
(* x, y, cx, cy, points and d.  points is the list of its whitespace-      *)
(* separated items, each with the number of commas in it and, when that is *)
(* one, the two parts.  A tree is its root element (with the names of the  *)
(* dimension attributes it declares) and the elements below it.            *)
(***************************************************************************)
Elem(tag, x, y, cx, cy, points, d) ==
    [tag |-> tag, x |-> x, y |-> y, cx |-> cx, cy |-> cy,
     points |-> points, d |-> d]

NoPoints == [has |-> FALSE, items |-> << >>]

Points(items) == [has |-> TRUE, items |-> items]

Pt(px, py) == [commas |-> 1, px |-> px, py |-> py]

Item(commas) == [commas |-> commas, px |-> None, py |-> None]

NoD == [has |-> FALSE, text |-> << >>]

D(text) == [has |-> TRUE, text |-> text]

\* str(float(value) + off); the bare except leaves other text as it is.
OffsetAttr(a, off) == IF IsNum(a) THEN Num(a[2] + off) ELSE a

\* One item of points: "px,py" is shifted when both parts are numbers and kept
\* otherwise; an item without a comma is kept.
OffsetItem(pt, x_off, y_off) ==
    IF pt.commas = 1 /\ IsNum(pt.px) /\ IsNum(pt.py)
    THEN Pt(Num(pt.px[2] + x_off), Num(pt.py[2] + y_off))
    ELSE pt

\* px, py = pt.split(',') is outside the try: an item with two or more commas
\* raises ValueError.
ElemRaises(elem) ==
    elem.points.has /\ \E k \in 1..Len(elem.points.items) :
                           elem.points.items[k].commas >= 2

OffsetElem(elem, x_off, y_off) ==
    [elem EXCEPT
        !.x = OffsetAttr(elem.x, x_off),
        !.y = OffsetAttr(elem.y, y_off),
        !.cx = OffsetAttr(elem.cx, x_off),
        !.cy = OffsetAttr(elem.cy, y_off),
        !.points = IF elem.points.has
                   THEN Points([k \in 1..Len(elem.points.items) |->
                                   OffsetItem(elem.points.items[k], x_off, y_off)])
                   ELSE elem.points,
        !.d = IF elem.d.has
              THEN D(add_offset_to_path_d(elem.d.text, x_off, y_off))
              ELSE elem.d]

\* for elem in svg_root.iter(): the root, then every element below it.
offset_svg_coords(svg, x_off, y_off) ==
    [svg EXCEPT
        !.root = OffsetElem(svg.root, x_off, y_off),
        !.children = [k \in 1..Len(svg.children) |->
                         OffsetElem(svg.children[k], x_off, y_off)]]

OffsetRaises(svg) ==
    \/ ElemRaises(svg.root)
    \/ \E k \in 1..Len(svg.children) : ElemRaises(svg.children[k])

\* sub_svg_root.attrib.pop('width' / 'height' / 'viewBox', None)
PopDims(svg) == [svg EXCEPT !.dims = svg.dims \ {"width", "height", "viewBox"}]

(***************************************************************************)
(* The artwork directory: <package>.svg files.  A file either parses to a  *)
(* tree or does not; a package without a file is not in the directory.     *)
(***************************************************************************)
SvgFile(svg) == [parses |-> TRUE, svg |-> svg]

Svg(dims, children) ==
    [dims |-> dims,
     root |-> Elem("svg", None, None, None, None, NoPoints, NoD),
     children |-> children]

NoneSvg == Svg({}, << >>)

BrokenFile == [parses |-> FALSE, svg |-> NoneSvg]

RES_0805 ==
    Svg({"width", "height", "viewBox"},
        << Elem("rect", Num(1), Num(2), None, None, NoPoints, NoD),
           Elem("circle", None, None, Num(3), Text, NoPoints, NoD),
           Elem("polygon", None, None, None, None,
                Points(<<Pt(Num(0), Num(0)), Pt(Num(10), Text), Item(0)>>), NoD),
           Elem("path", None, None, None, None, NoPoints,
                D(<<"M", "1", "0", " ", "2", "0", "L", "-", "3", ",", "4", "Z">>)) >>)

LED ==
    Svg({"viewBox"},
        << Elem("text", Text, Num(7), None, None, NoPoints, NoD),
           Elem("path", None, None, None, None, NoPoints, D(<<"M", "7", " ", "1">>)) >>)

\* points="0,0,10,0": commas only, no whitespace.
DIP8 ==
    Svg({"width", "height"},
        << Elem("polygon", None, None, None, None, Points(<<Item(3)>>), NoD) >>)

SUBPARTS_DIR ==
    [package \in {"RES_0805", "LED", "DIP8", "SOT23"} |->
        CASE package = "RES_0805" -> SvgFile(RES_0805)
          [] package = "LED" -> SvgFile(LED)
          [] package = "DIP8" -> SvgFile(DIP8)
          [] package = "SOT23" -> BrokenFile]

\* os.path.isfile(<subparts_dir>/<package>.svg)
match_svg(dir, package) == package \in DOMAIN dir

\* The root of the parsed file, or NoneSvg (None) when it does not parse.
parse_svg(dir, package) ==
    IF dir[package].parses THEN dir[package].svg ELSE NoneSvg

(***************************************************************************)
(* Input documents.                                                        *)
(***************************************************************************)
Wire(x1, y1, x2, y2) == [x1 |-> x1, y1 |-> y1, x2 |-> x2, y2 |-> y2]

\* End points in millimetres.
EndPoints == {<<0, 0>>, <<2, 0>>, <<2, -1>>, <<0, 3>>}

WellFormedWires == {Wire(Num(p[1]), Num(p[2]), Num(q[1]), Num(q[2])) :
                        p \in EndPoints, q \in EndPoints}

\* A wire without x1, and a wire whose y2 is no number.
MalformedWires == {Wire(None, Num(0), Num(2), Num(0)),
                   Wire(Num(0), Num(0), Num(2), Text)}

WireInputs == WellFormedWires \cup MalformedWires

RECURSIVE SeqsUpTo(_, _)
SeqsUpTo(S, n) ==
    IF n = 0 THEN {<< >>}
    ELSE LET shorter == SeqsUpTo(S, n - 1)
         IN  shorter \cup {Append(q, x) : q \in shorter, x \in S}

NoPlain == [present |-> FALSE, wires |-> << >>]

Plain(wires) == [present |-> TRUE, wires |-> wires]

\* Every document section of at most MaxWires wires, and a document without one.
AllBoards == {NoPlain} \cup {Plain(ws) : ws \in SeqsUpTo(WireInputs, MaxWires)}

\* A few sections: none, an empty one, an open corner, a malformed wire
\* after a well-formed one.
SampleBoards ==
    { NoPlain,
      Plain(<< >>),
      Plain(<<Wire(Num(0), Num(0), Num(2), Num(0)), Wire(Num(2), Num(0), Num(2), Num(-1))>>),
      Plain(<<Wire(Num(0), Num(0), Num(2), Num(0)), Wire(Num(0), Num(0), Num(2), Text)>>) }

Element(name, package, x, y, rot) ==
    [name |-> name, package |-> package, x |-> x, y |-> y, rot |-> rot]

\* Elements: two resistors of one package, a package without artwork, one
\* whose artwork does not parse, one whose artwork has a comma-only point
\* list, an element without a name and one without a package.
ElementInputs ==
    { Element("R1", "RES_0805", 5, 5, "R0"),
      Element("R2", "RES_0805", 20, 10, "MR90"),
      Element("D1", "LED", 0, 0, "R0"),
      Element("Q1", "QFN32", 8, 1, "R90"),
      Element("T1", "SOT23", 3, 3, "R0"),
      Element("U1", "DIP8", 12, 4, "R180"),
      Element("", "RES_0805", 1, 1, "R0"),
      Element("X1", "", 2, 2, "R0") }

\* Names are unique within a document.
UniqueNames(els) ==
    \A a, b \in 1..Len(els) :
        (a # b /\ els[a].name # "") => els[a].name # els[b].name

\* Twelve resistors, two of them without artwork: the grid's second row.
LongBoard ==
    [k \in 1..12 |->
        Element(<<"R1", "R2", "R3", "R4", "R5", "R6", "R7", "R8", "R9", "R10",
                  "R11", "R12">>[k],
                IF k \in {3, 11} THEN "QFN32" ELSE IF k % 2 = 0 THEN "LED" ELSE "RES_0805",
                k, 2 * k, IF k % 2 = 0 THEN "R0" ELSE "MR270")]

\* Every document of at most MaxElements elements, and the long one.
AllElementLists ==
    {els \in SeqsUpTo(ElementInputs, MaxElements) : UniqueNames(els)} \cup {LongBoard}

\* A few documents: no element, one resistor, one of each kind.
SampleElementLists ==
    { << >>,
      <<Element("R1", "RES_0805", 5, 5, "R0")>>,
      <<Element("Q1", "QFN32", 8, 1, "R90"), Element("R1", "RES_0805", 5, 5, "R0"),
        Element("T1", "SOT23", 3, 3, "R0"), Element("D1", "LED", 0, 0, "R0")>>,
      <<Element("R2", "RES_0805", 20, 10, "MR90"), Element("U1", "DIP8", 12, 4, "R180")>> }

(***************************************************************************)
(* State.                                                                  *)
(*   plain, elements     the parsed input document (read only)             *)
(*   subparts            the artwork directory                             *)
(*   components ... pc   the locals of main() and combine_svgs(); i counts *)
(*                       from 1 (Python's i + 1), 0 before the loop        *)
(*   sub_svg_root        the tree parse_svg returned last, as the loop     *)
(*                       body left it                                      *)
(*   warnings            the "Warning:" lines printed, with the index of   *)
(*                       the component each is about                       *)
(*   placements          history: the index and offset of each group       *)
(*   output              the file written at the end                       *)
(*   exit_code           -1 while running, then the process's exit status  *)
(*   path_*              the path-data rewriter on its own                 *)
(***************************************************************************)
VARIABLES plain, elements, subparts, components, board_outline, positions,
          root_svg, i, sub_svg_root, warnings, placements, output, exit_code, pc,
          path_in, path_dx, path_dy, path_prev, path_out, path_n

mainVars == <<plain, elements, subparts, components, board_outline, positions,
              root_svg, i, sub_svg_root, warnings, placements, output, exit_code>>

pathVars == <<path_in, path_dx, path_dy, path_prev, path_out, path_n>>

vars == <<plain, elements, subparts, components, board_outline, positions,
          root_svg, i, sub_svg_root, warnings, placements, output, exit_code, pc,
          path_in, path_dx, path_dy, path_prev, path_out, path_n>>

(***************************************************************************)
(* The path-data rewriter on its own: a path string and an offset are      *)
(* drawn, the rewriter is applied, and applied again to its own result.    *)
(***************************************************************************)
PathAlphabet == {"0", "1", "7", ".", "-", "+", " ", "M"}

RECURSIVE StringsUpTo(_)
StringsUpTo(n) ==
    IF n = 0 THEN {<< >>}
    ELSE LET shorter == StringsUpTo(n - 1)
         IN  shorter \cup {Append(s, c) : s \in shorter, c \in PathAlphabet}

\* Longer paths: separated literals, a literal that rounds to zero from below,
\* literals delimited by the point alone, exponents, a single-literal command.
SamplePaths ==
    { <<"M", "1", "0", " ", "2", "0", "L", "3", "0", ",", "4", "0", "Z">>,
      <<"-", ".", "0", "0", "0", "1", " ", "1">>,
      <<"M", "1", ".", "7", ".", "7">>,
      <<"1", "e", "1", " ", "1", "E", "-", "2">>,
      <<"M", "1", " ", "2", "H", "7">> }

PathInputs == StringsUpTo(MaxPathLen) \cup SamplePaths

PathOffsets == {0, 2}

NoRootSvg ==
    [width |-> 0, height |-> 0, viewbox_x |-> 0, viewbox_y |-> 0,
     polygon |-> << >>, groups |-> << >>]

NoOutput == [written |-> FALSE, svg |-> NoRootSvg]

\* The locals of main() before it has assigned any of them.
MainUnassigned ==
    /\ subparts = SUBPARTS_DIR
    /\ components = << >>
    /\ board_outline = << >>
    /\ positions = << >>
    /\ root_svg = NoRootSvg
    /\ i = 0
    /\ sub_svg_root = NoneSvg
    /\ warnings = << >>
    /\ placements = << >>
    /\ output = NoOutput
    /\ exit_code = -1

PathUnused ==
    /\ path_in = << >>
    /\ path_dx = 0
    /\ path_dy = 0
    /\ path_prev = << >>
    /\ path_out = << >>
    /\ path_n = 0

InitPath ==
    /\ plain = NoPlain
    /\ elements = << >>
    /\ MainUnassigned
    /\ pc = "path"
    /\ path_in \in PathInputs
    /\ path_dx \in PathOffsets
    /\ path_dy \in PathOffsets
    /\ path_prev = path_in
    /\ path_out = path_in
    /\ path_n = 0

\* r = add_offset_to_path_d(d, dx, dy)
Rewrite ==
    /\ pc = "path"
    /\ path_n = 0
    /\ path_prev' = path_in
    /\ path_out' = add_offset_to_path_d(path_in, path_dx, path_dy)
    /\ path_n' = 1
    /\ UNCHANGED <<path_in, path_dx, path_dy, pc>>
    /\ UNCHANGED mainVars

\* add_offset_to_path_d(r, dx, dy) on the previous result
RewriteAgain ==
    /\ pc = "path"
    /\ path_n >= 1
    /\ path_n < MaxRewrites
    /\ path_prev' = path_out
    /\ path_out' = add_offset_to_path_d(path_out, path_dx, path_dy)
    /\ path_n' = path_n + 1
    /\ UNCHANGED <<path_in, path_dx, path_dy, pc>>
    /\ UNCHANGED mainVars

NextPath == Rewrite \/ RewriteAgain

SpecPath == InitPath /\ [][NextPath]_vars


(***************************************************************************)
(* Claims about the path-data rewriter (checked under SpecPath).           *)
(***************************************************************************)

\* The k-th literal is an x when k is odd and a y when k is even.
OffsetOfLiteral(k) == IF k % 2 = 1 THEN path_dx ELSE path_dy

\* C1: when the literals of the input form N (x, y) pairs, the rewritten
\* string tokenizes to N pairs as well, and its k-th literal equals the k-th
\* input literal plus its offset within 0.001 -- also when adjacent literals
\* are delimited only by the sign or the leading point of the second one.
C1_PairsShiftedByOffset ==
    (pc = "path" /\ path_n = 1) =>
        LET tin == findall(path_in)
            tout == findall(path_out)
        IN  Len(tin) % 2 = 0 =>
                /\ Len(tout) = Len(tin)
                /\ \A k \in 1..Len(tin) :
                       Abs(float(tout[k]) - (float(tin[k]) + Fixed(OffsetOfLiteral(k))))
                           <= FIX \div 1000

\* C2: with offset (0, 0), rewriting the result of a rewrite returns it
\* unchanged, character for character.
C2_ZeroOffsetIdempotent ==
    (pc = "path" /\ path_dx = 0 /\ path_dy = 0 /\ path_n = 2) =>
        path_out = path_prev


(***************************************************************************)
(* main() and combine_svgs().                                              *)
(***************************************************************************)
Min(S) == CHOOSE m \in S : \A v \in S : m <= v

Max(S) == CHOOSE m \in S : \A v \in S : m >= v

\* The variant of CanvasExtents that pads the size but not the origin.
CanvasOriginUnpadded(outline) ==
    IF outline # << >>
    THEN LET xs == {outline[k][1] : k \in 1..Len(outline)}
             ys == {outline[k][2] : k \in 1..Len(outline)}
         IN  [width |-> Max(xs) - Min(xs) + Fixed(200),
              height |-> Max(ys) - Min(ys) + Fixed(200),
              viewbox_x |-> Min(xs),
              viewbox_y |-> Min(ys)]
    ELSE [width |-> Fixed(2000), height |-> Fixed(2000),
          viewbox_x |-> 0, viewbox_y |-> 0]

\* width, height, viewbox_x, viewbox_y of combine_svgs, in fixed point.
CanvasExtents(outline) ==
    IF outline # << >>
    THEN LET xs == {outline[k][1] : k \in 1..Len(outline)}
             ys == {outline[k][2] : k \in 1..Len(outline)}
         IN  [width |-> Max(xs) - Min(xs) + Fixed(200),
              height |-> Max(ys) - Min(ys) + Fixed(200),
              viewbox_x |-> Min(xs) - Fixed(100),
              viewbox_y |-> Min(ys) - Fixed(100)]
    ELSE [width |-> Fixed(2000), height |-> Fixed(2000),
          viewbox_x |-> 0, viewbox_y |-> 0]

\* The variant of PlacementOffset that counts the groups placed so far.
OffsetByPlacedCount == positions[Len(root_svg.groups) + 1]

RECURSIVE SumOffsets(_)
SumOffsets(k) ==
    IF k = 0 THEN <<0, 0>>
    ELSE <<SumOffsets(k - 1)[1] + positions[k][1],
           SumOffsets(k - 1)[2] + positions[k][2]>>

\* The variant of PlacementOffset in which the offsets of the earlier
\* components stay in the artwork.
OffsetAccumulated == SumOffsets(i)

\* x_off, y_off = positions[i]
PlacementOffset == positions[i]

InitWith(boards, elementLists) ==
    /\ plain \in boards
    /\ elements \in elementLists
    /\ MainUnassigned
    /\ PathUnused
    /\ pc = "extract_components"

\* Few outlines, every short component list.
Init == InitWith(SampleBoards, AllElementLists)

\* Every short outline, few component lists.
InitOutline == InitWith(AllBoards, SampleElementLists)

\* components = extract_components(root)
ExtractComponents ==
    /\ pc = "extract_components"
    /\ components' = extract_components(elements)
    /\ pc' = "extract_board_outline"
    /\ UNCHANGED <<plain, elements, subparts, board_outline, positions, root_svg,
                   i, sub_svg_root, warnings, placements, output, exit_code>>
    /\ UNCHANGED pathVars

\* board_outline = extract_board_outline(root)
ExtractBoardOutline ==
    /\ pc = "extract_board_outline"
    /\ ~ OutlineRaises(plain)
    /\ board_outline' = extract_board_outline(plain)
    /\ pc' = "check_components"
    /\ UNCHANGED <<plain, elements, subparts, components, positions, root_svg,
                   i, sub_svg_root, warnings, placements, output, exit_code>>
    /\ UNCHANGED pathVars

\* float() raises inside extract_board_outline; main() has no handler, the
\* interpreter prints the traceback and exits with status 1.
ExtractBoardOutlineRaises ==
    /\ pc = "extract_board_outline"
    /\ OutlineRaises(plain)
    /\ pc' = "crashed"
    /\ exit_code' = 1
    /\ UNCHANGED <<plain, elements, subparts, components, board_outline, positions,
                   root_svg, i, sub_svg_root, warnings, placements, output>>
    /\ UNCHANGED pathVars

\* if not components: print(...); sys.exit(0)
NoComponents ==
    /\ pc = "check_components"
    /\ components = << >>
    /\ pc' = "exited"
    /\ exit_code' = 0
    /\ UNCHANGED <<plain, elements, subparts, components, board_outline, positions,
                   root_svg, i, sub_svg_root, warnings, placements, output>>
    /\ UNCHANGED pathVars

\* The grid of positions, one per component.
PlaceOnGrid ==
    /\ pc = "check_components"
    /\ components # << >>
    /\ positions' = GridPositions(Len(components))
    /\ pc' = "combine_svgs"
    /\ UNCHANGED <<plain, elements, subparts, components, board_outline, root_svg,
                   i, sub_svg_root, warnings, placements, output, exit_code>>
    /\ UNCHANGED pathVars

\* combine_svgs up to its loop: the canvas and the outline polygon.
CombineBegin ==
    /\ pc = "combine_svgs"
    /\ LET canvas == CanvasExtents(board_outline)
       IN  root_svg' = [width |-> canvas.width, height |-> canvas.height,
                        viewbox_x |-> canvas.viewbox_x,
                        viewbox_y |-> canvas.viewbox_y,
                        polygon |-> board_outline, groups |-> << >>]
    /\ i' = 1
    /\ pc' = "combine_loop"
    /\ UNCHANGED <<plain, elements, subparts, components, board_outline, positions,
                   sub_svg_root, warnings, placements, output, exit_code>>
    /\ UNCHANGED pathVars

\* match_svg returns None: warning, continue.
SkipNoSvg ==
    /\ pc = "combine_loop"
    /\ i <= Len(components)
    /\ ~ match_svg(subparts, components[i].package)
    /\ warnings' = Append(warnings, [kind |-> "no_svg", index |-> i,
                                     name |-> components[i].name,
                                     package |-> components[i].package])
    /\ i' = i + 1
    /\ UNCHANGED <<plain, elements, subparts, components, board_outline, positions,
                   root_svg, sub_svg_root, placements, output, exit_code, pc>>
    /\ UNCHANGED pathVars

\* parse_svg returns None: warning, continue.
SkipUnparseable ==
    /\ pc = "combine_loop"
    /\ i <= Len(components)
    /\ match_svg(subparts, components[i].package)
    /\ ~ subparts[components[i].package].parses
    /\ sub_svg_root' = parse_svg(subparts, components[i].package)
    /\ warnings' = Append(warnings, [kind |-> "parse_failed", index |-> i,
                                     name |-> components[i].name,
                                     package |-> components[i].package])
    /\ i' = i + 1
    /\ UNCHANGED <<plain, elements, subparts, components, board_outline, positions,
                   root_svg, placements, output, exit_code, pc>>
    /\ UNCHANGED pathVars

\* The rest of the loop body: strip the dimensions of the parsed root, copy
\* it, offset the copy, move the copy's children into a new group.
PlaceComponent ==
    /\ pc = "combine_loop"
    /\ i <= Len(components)
    /\ match_svg(subparts, components[i].package)
    /\ subparts[components[i].package].parses
    /\ LET parsed == PopDims(parse_svg(subparts, components[i].package))
           x_off == PlacementOffset[1]
           y_off == PlacementOffset[2]
           part_svg == offset_svg_coords(parsed, x_off, y_off)
       IN  /\ ~ OffsetRaises(parsed)
           /\ sub_svg_root' = parsed
           /\ root_svg' = [root_svg EXCEPT !.groups =
                              Append(@, [id |-> components[i].name,
                                         children |-> part_svg.children])]
           /\ placements' = Append(placements,
                                   [index |-> i, x_off |-> x_off, y_off |-> y_off])
    /\ i' = i + 1
    /\ UNCHANGED <<plain, elements, subparts, components, board_outline, positions,
                   warnings, output, exit_code, pc>>
    /\ UNCHANGED pathVars

\* offset_svg_coords raises on a point item with two or more commas; nothing
\* catches it, the run ends with a traceback and status 1, nothing is written.
PlaceComponentRaises ==
    /\ pc = "combine_loop"
    /\ i <= Len(components)
    /\ match_svg(subparts, components[i].package)
    /\ subparts[components[i].package].parses
    /\ LET parsed == PopDims(parse_svg(subparts, components[i].package))
       IN  /\ OffsetRaises(parsed)
           /\ sub_svg_root' = parsed
    /\ pc' = "crashed"
    /\ exit_code' = 1
    /\ UNCHANGED <<plain, elements, subparts, components, board_outline, positions,
                   root_svg, i, warnings, placements, output>>
    /\ UNCHANGED pathVars

\* return root_svg; tree.write(output_path, ...); main returns.
WriteOutput ==
    /\ pc = "combine_loop"
    /\ i > Len(components)
    /\ output' = [written |-> TRUE, svg |-> root_svg]
    /\ pc' = "done"
    /\ exit_code' = 0
    /\ UNCHANGED <<plain, elements, subparts, components, board_outline, positions,
                   root_svg, i, sub_svg_root, warnings, placements>>
    /\ UNCHANGED pathVars

Next ==
    \/ ExtractComponents
    \/ ExtractBoardOutline
    \/ ExtractBoardOutlineRaises
    \/ NoComponents
    \/ PlaceOnGrid
    \/ CombineBegin
    \/ SkipNoSvg
    \/ SkipUnparseable
    \/ PlaceComponent
    \/ PlaceComponentRaises
    \/ WriteOutput

Spec == Init /\ [][Next]_vars

SpecOutline == InitOutline /\ [][Next]_vars


(***************************************************************************)
(* Claims about the run (checked under Spec or SpecOutline).               *)
(***************************************************************************)

\* The point (x, y), given in mils, lies on the canvas of svg.
OnCanvas(svg, x, y) ==
    /\ svg.viewbox_x <= Fixed(x) /\ Fixed(x) <= svg.viewbox_x + svg.width
    /\ svg.viewbox_y <= Fixed(y) /\ Fixed(y) <= svg.viewbox_y + svg.height

\* C3: in the document written, the canvas contains the position of every
\* placed component: it was expanded where the outline's box (or the default
\* canvas) did not contain one.
C3_CanvasContainsPlacements ==
    output.written =>
        \A k \in 1..Len(placements) :
            OnCanvas(output.svg, placements[k].x_off, placements[k].y_off)

\* The cell of the grid for the component at (1-based) index k, in mils.
GridCell(k) == <<((k - 1) % 10) * 500, ((k - 1) \div 10) * 500>>

\* The component at index k has artwork that is found and parses.
Resolves(k) ==
    /\ components[k].package \in DOMAIN SUBPARTS_DIR
    /\ SUBPARTS_DIR[components[k].package].parses

GroupsOf(k) == {g \in 1..Len(placements) : placements[g].index = k}

WarningsOf(k) == {w \in 1..Len(warnings) : warnings[w].index = k}

\* C4: a component whose artwork is missing or unparseable gets no group and
\* one warning, and never ends the run; every other component handled so far
\* has exactly one group, named after it, at the grid cell of its own index
\* in the component list; a completed run has handled every component, wrote
\* its output and exits with status 0.
C4_SkippedComponentsLeaveOthersAlone ==
    /\ pc \in {"combine_loop", "done"} =>
          /\ Len(root_svg.groups) = Len(placements)
          /\ \A k \in 1..(i - 1) :
                IF Resolves(k)
                THEN /\ Cardinality(GroupsOf(k)) = 1
                     /\ WarningsOf(k) = {}
                     /\ \A g \in GroupsOf(k) :
                           /\ <<placements[g].x_off, placements[g].y_off>> = GridCell(k)
                           /\ root_svg.groups[g].id = components[k].name
                ELSE /\ GroupsOf(k) = {}
                     /\ Cardinality(WarningsOf(k)) = 1
    /\ (pc = "crashed" /\ i >= 1) => Resolves(i)
    /\ pc = "done" =>
          /\ i = Len(components) + 1
          /\ exit_code = 0
          /\ output = [written |-> TRUE, svg |-> root_svg]

\* C4's case: a completed run in which a skipped component precedes a placed one.
C4_Witness ==
    /\ pc = "done"
    /\ \E a, b \in 1..Len(components) : a < b /\ ~ Resolves(a) /\ Resolves(b)

\* C5: a run on a document without segments and without components ends with
\* status 0 and has written a document with the default 2000 x 2000 canvas at
\* (0, 0), no outline and no group.
C5_EmptyDocumentDefaultCanvas ==
    (pc \in {"done", "exited", "crashed"} /\ plain.wires = << >> /\ elements = << >>) =>
        /\ exit_code = 0
        /\ output.written
        /\ output.svg = [width |-> Fixed(2000), height |-> Fixed(2000),
                         viewbox_x |-> 0, viewbox_y |-> 0,
                         polygon |-> << >>, groups |-> << >>]

WellFormed(wire) ==
    wire.x1[1] = "num" /\ wire.y1[1] = "num" /\ wire.x2[1] = "num" /\ wire.y2[1] = "num"

\* C6: when one wire of the outline section has a missing or non-numeric
\* coordinate and another wire is well-formed, the run does not crash.
C6_MalformedWireDoesNotCrash ==
    (/\ \E k \in 1..Len(plain.wires) : ~ WellFormed(plain.wires[k])
     /\ \E k \in 1..Len(plain.wires) : WellFormed(plain.wires[k]))
        => pc # "crashed"

\* The end points of the segments in document order, in millimetres.
SegmentEnds ==
    [k \in 1..(2 * Len(plain.wires)) |->
        LET wire == plain.wires[(k + 1) \div 2]
        IN  IF k % 2 = 1 THEN <<wire.x1[2], wire.y1[2]>>
            ELSE <<wire.x2[2], wire.y2[2]>>]

InMils(p) == <<p[1] * 393701, p[2] * 393701>>

\* The index in SegmentEnds at which the outline point q is seen first.
FirstSeen(q) ==
    Min({k \in 1..Len(SegmentEnds) : InMils(SegmentEnds[k]) = q})

\* C7: the outline returned has at most 2 x segments points, exactly that
\* many precisely when no two end points are identical; its points are
\* pairwise distinct, are the end points in first-seen order, and there is at
\* least one when there is a segment.
C7_OutlineIsDeduplicatedEndPoints ==
    pc \in {"check_components", "combine_svgs", "combine_loop", "done", "exited"} =>
        LET n == Len(plain.wires)
            ends == SegmentEnds
        IN  /\ Len(board_outline) <= 2 * n
            /\ (Len(board_outline) = 2 * n) <=>
                   (\A a, b \in 1..(2 * n) : a # b => ends[a] # ends[b])
            /\ \A a, b \in 1..Len(board_outline) :
                   a # b => board_outline[a] # board_outline[b]
            /\ \A k \in 1..(2 * n) :
                   \E a \in 1..Len(board_outline) : board_outline[a] = InMils(ends[k])
            /\ \A a \in 1..Len(board_outline) :
                   \E k \in 1..(2 * n) : board_outline[a] = InMils(ends[k])
            /\ \A a, b \in 1..Len(board_outline) :
                   a < b => FirstSeen(board_outline[a]) < FirstSeen(board_outline[b])
            /\ n >= 1 => board_outline # << >>

\* C7's case: two segments that share an end point gave three points.
C7_Witness ==
    /\ pc = "check_components"
    /\ Len(plain.wires) = 2
    /\ Len(board_outline) = 3

\* The orientation code mirrors: "M<angle>" or "MR<angle>".
Mirrored(rot) == rot \in {"MR90", "MR270"}

Angle(rot) ==
    CASE rot \in {"R0"} -> 0
      [] rot \in {"R90", "MR90"} -> 90
      [] rot \in {"R180"} -> 180
      [] rot \in {"MR270"} -> 270

\* The element of the document that the component at index k was read from.
RECURSIVE ElementOf(_, _)
ElementOf(k, from) ==
    IF elements[from].name # "" /\ elements[from].package # ""
    THEN IF k = 1 THEN elements[from] ELSE ElementOf(k - 1, from + 1)
    ELSE ElementOf(k, from + 1)

\* C8: each group of the document written is placed by its component's
\* declaration: translated to the declared (x, y), mirrored exactly when the
\* orientation code is mirrored, rotated by its angle.  The code applies a
\* translation only, so the mirror of a group is FALSE and its rotation 0.
C8_PlacementFromDeclaration ==
    output.written =>
        \A g \in 1..Len(placements) :
            LET element == ElementOf(placements[g].index, 1)
            IN  /\ \/ <<placements[g].x_off, placements[g].y_off>>
                          = <<element.x, element.y>>
                   \/ <<Fixed(placements[g].x_off), Fixed(placements[g].y_off)>>
                          = InMils(<<element.x, element.y>>)
                /\ FALSE = Mirrored(element.rot)
                /\ 0 = Angle(element.rot)

\* C9: with an outline, the viewBox starts 100 below the least x and y of the
\* outline and is its extent plus 200 wide and high, so every outline point
\* is at least 100 inside each edge and the sides are at least 200; without
\* an outline the canvas is 0 0 2000 2000.
C9_CanvasFromOutline ==
    pc \in {"combine_loop", "done"} =>
        IF board_outline # << >>
        THEN LET pts == {board_outline[k] : k \in 1..Len(board_outline)}
             IN  /\ \E p \in pts : root_svg.viewbox_x = p[1] - Fixed(100)
                 /\ \E p \in pts : root_svg.viewbox_y = p[2] - Fixed(100)
                 /\ \E p \in pts :
                        root_svg.viewbox_x + root_svg.width = p[1] + Fixed(100)
                 /\ \E p \in pts :
                        root_svg.viewbox_y + root_svg.height = p[2] + Fixed(100)
                 /\ \A p \in pts :
                        /\ root_svg.viewbox_x + Fixed(100) <= p[1]
                        /\ p[1] <= root_svg.viewbox_x + root_svg.width - Fixed(100)
                        /\ root_svg.viewbox_y + Fixed(100) <= p[2]
                        /\ p[2] <= root_svg.viewbox_y + root_svg.height - Fixed(100)
                 /\ root_svg.width >= Fixed(200)
                 /\ root_svg.height >= Fixed(200)
        ELSE /\ root_svg.viewbox_x = 0
             /\ root_svg.viewbox_y = 0
             /\ root_svg.width = Fixed(2000)
             /\ root_svg.height = Fixed(2000)

\* C9's case: a document written for an outline that spans both axes.
C9_Witness ==
    /\ pc = "done"
    /\ \E a, b \in 1..Len(board_outline) :
           /\ board_outline[a][1] < board_outline[b][1]
           /\ board_outline[a][2] # board_outline[b][2]

\* A coordinate attribute of the group against the asset's: a number moved by
\* off, anything else as it was.
AttrShifted(orig, new, off) ==
    IF orig[1] = "num" THEN new = <<"num", orig[2] + off>> ELSE new = orig

ItemShifted(orig, new, x_off, y_off) ==
    IF orig.commas = 1 /\ orig.px[1] = "num" /\ orig.py[1] = "num"
    THEN /\ new.commas = 1
         /\ new.px = <<"num", orig.px[2] + x_off>>
         /\ new.py = <<"num", orig.py[2] + y_off>>
    ELSE new = orig

\* The literals of the path text new are those of orig moved by the offset,
\* x and y in turn.
PathShifted(orig, new, x_off, y_off) ==
    LET tin == findall(orig)
        tout == findall(new)
    IN  /\ Len(tout) = Len(tin)
        /\ \A k \in 1..Len(tin) :
               float(tout[k]) = float(tin[k]) + Fixed(IF k % 2 = 1 THEN x_off ELSE y_off)

ElemShifted(orig, new, x_off, y_off) ==
    /\ new.tag = orig.tag
    /\ AttrShifted(orig.x, new.x, x_off)
    /\ AttrShifted(orig.y, new.y, y_off)
    /\ AttrShifted(orig.cx, new.cx, x_off)
    /\ AttrShifted(orig.cy, new.cy, y_off)
    /\ new.points.has = orig.points.has
    /\ Len(new.points.items) = Len(orig.points.items)
    /\ \A k \in 1..Len(orig.points.items) :
           ItemShifted(orig.points.items[k], new.points.items[k], x_off, y_off)
    /\ new.d.has = orig.d.has
    /\ orig.d.has => PathShifted(orig.d.text, new.d.text, x_off, y_off)

\* The tree is the parsed artwork of some package, its elements and their
\* coordinates as in the file.
ParsedUntouched(svg) ==
    \E package \in DOMAIN SUBPARTS_DIR :
        /\ svg.root = SUBPARTS_DIR[package].svg.root
        /\ svg.children = SUBPARTS_DIR[package].svg.children

\* C10: the artwork directory stays as it was, the tree parsed from it keeps
\* the file's coordinates (the offsets go to the copy), and every group holds
\* the elements of its package's artwork with the original coordinates moved
\* by the grid cell of its own component and by nothing else, also when
\* several components share a package.
C10_ArtworkCopiedPerComponent ==
    /\ pc # "path" => subparts = SUBPARTS_DIR
    /\ (pc # "path" /\ sub_svg_root # NoneSvg) => ParsedUntouched(sub_svg_root)
    /\ pc \in {"combine_loop", "done", "crashed"} =>
          \A g \in 1..Len(root_svg.groups) :
              LET k == placements[g].index
                  asset == SUBPARTS_DIR[components[k].package].svg
                  group == root_svg.groups[g]
              IN  /\ Len(group.children) = Len(asset.children)
                  /\ \A c \in 1..Len(asset.children) :
                         ElemShifted(asset.children[c], group.children[c],
                                     GridCell(k)[1], GridCell(k)[2])

\* C10's case: three groups made from the same package, at growing offsets.
C10_Witness ==
    /\ pc = "done"
    /\ \E a, b, c \in 1..Len(placements) :
           /\ a < b /\ b < c
           /\ components[placements[a].index].package
                  = components[placements[b].index].package
           /\ components[placements[b].index].package
                  = components[placements[c].index].package
           /\ placements[c].x_off > placements[b].x_off

=============================================================================
